---- MODULE Spec2Model ----
(***************************************************************************)
(* CappedDownloadQueue for NZBGet (src/CappedDownloadQueue.py).            *)
(*                                                                         *)
(* The script runs in two roles.  As a scheduler script it loops forever:  *)
(* list the groups of the download queue, add up the size of the groups    *)
(* that are not PAUSED, and resume paused groups in priority order while   *)
(* they fit the storage that is left.  As a queue script it pauses every   *)
(* newly added group.  The NZBGet engine is the only shared state: the     *)
(* processes talk to it through listgroups and editqueue.                  *)
(***************************************************************************)
EXTENDS Integers, Sequences, FiniteSets, TLC

VARIABLES
    queue,                \* the engine's download queue: a sequence of groups
    s_pc,                 \* scheduler process: position in main_schedulerscript
    s_env,                \* scheduler process: its environment
    storage_size_mb,      \* local of main_schedulerscript (line 149)
    sleep_period_secs,    \* local of main_schedulerscript (line 150)
    groups,               \* local: the snapshot returned by listgroups (line 163)
    groups_total_size_mb, \* local (line 166)
    groups_to_resume,     \* local (line 170)
    remaining_size_mb,    \* local (line 171)
    current_priority,     \* generator local (line 116)
    yielded_groups,       \* generator local (line 111)
    emitted,              \* the groups the generator has yielded, in order
    s_calls,              \* remote calls of the scheduler in the current cycle
    s_exit,               \* exit status of the scheduler process
    h_pc,                 \* queue-script process: position in main_queuescript
    h_env,                \* queue-script process: its environment
    h_calls,              \* remote calls of the current queue-script process
    h_exit,               \* exit status of the last queue-script process
    u_exit                \* exit status of a process run with neither signal

vars == <<queue, s_pc, s_env, storage_size_mb, sleep_period_secs, groups,
          groups_total_size_mb, groups_to_resume, remaining_size_mb,
          current_priority, yielded_groups, emitted, s_calls, s_exit,
          h_pc, h_env, h_calls, h_exit, u_exit>>

schedLocals == <<storage_size_mb, sleep_period_secs, groups, groups_total_size_mb,
                 groups_to_resume, remaining_size_mb, current_priority,
                 yielded_groups, emitted>>
schedVars == <<s_pc, s_env, s_calls, s_exit>>
hookVars == <<h_pc, h_env, h_calls, h_exit>>

-----------------------------------------------------------------------------
(* Bounds of the model.                                                    *)

\* groups in the queue when the scheduler starts (CycleSpec)
MaxLen == 3
\* groups submitted to the engine while the scripts run (Spec)
MaxSubmit == 2
\* the generator stops being followed once it has yielded this many groups
MaxYielded == 7

-----------------------------------------------------------------------------
(* Program constants.                                                      *)

PP_SUCCESS == 93
\* PP_ERROR given the value of PP_SUCCESS
PP_ERROR_AsSuccess == PP_SUCCESS
PP_ERROR == 94
\* the queue script's status for an event it ignores (line 195)
QUEUE_IGNORED == 0
\* sentinels of the priority generator (lines 116 and 120)
PRIORITY_START == 999999
PRIORITY_FLOOR == -999999
\* MB per GB (line 149)
MB_PER_GB == 1024
\* exit status of the interpreter after an unhandled exception
UNHANDLED_EXCEPTION == 1
\* stands for ignore_group_id=None (line 97): no group has this id
NO_GROUP_ID == 0

None == "None"

\* the exit status of a process that has not ended
NoExit == 0 - 1

\* the environment of a process that was not started
NoEnv == [taskid |-> FALSE, event |-> None, nzbid |-> None,
          storage |-> None, interval |-> None]

-----------------------------------------------------------------------------
(* Inputs.                                                                 *)

\* <<FileSizeMB, RemainingSizeMB>> of a group: remaining never exceeds total
SizePairs == {<<512, 512>>, <<1024, 512>>, <<1024, 1024>>}
\* MaxPriority values: two ordinary values, the floor sentinel, and values
\* outside the sentinels on both sides
Priorities == {-1000000, -999999, 5, 7, 999999}
\* the groups submitted while the scripts run
SubmitPairs == {<<512, 512>>, <<1024, 512>>}
SubmitPriorities == {5, 7}
Statuses == {"PAUSED", "QUEUED"}
\* values of NZBPO_STORAGESIZEGB and NZBPO_SCHEDULERREFRESHINTERVAL
StorageValues == {None, "-1", "0", "1"}
IntervalValues == {None, "-1", "0", "15"}
EventValues == {None, "NZB_ADDED", "NZB_DOWNLOADED"}

Group(id, pair, prio, status) ==
    [NZBID |-> id, FileSizeMB |-> pair[1], RemainingSizeMB |-> pair[2],
     MaxPriority |-> prio, Status |-> status]

GroupAttrs == SizePairs \X Priorities \X Statuses

\* the queue of n groups with ids 1..n in queue order and attributes f
QueueOf(n, f) == [i \in 1..n |-> Group(i, f[i][1], f[i][2], f[i][3])]

\* int(): the decimal strings the environment may hold
ParseInt(s) ==
    CASE s = "-1" -> 0 - 1
      [] s = "0"  -> 0
      [] s = "1"  -> 1
      [] s = "2"  -> 2
      [] s = "3"  -> 3
      [] s = "4"  -> 4
      [] s = "15" -> 15

\* the decimal string NZBGet puts in NZBNA_NZBID for a group id
IdString(id) == <<"1", "2", "3", "4">>[id]

\* int(os.environ.get(name, 0))
EnvInt(v) == IF v = None THEN 0 ELSE ParseInt(v)

-----------------------------------------------------------------------------
(* Pure functions of the script.                                           *)

\* nzbget_group_is_active without the status test of line 95
nzbget_group_is_active_Always(group) == TRUE

nzbget_group_is_active(group) == group.Status # "PAUSED"

RECURSIVE TotalActiveFrom(_, _, _)
TotalActiveFrom(gs, ignore_group_id, total_size_mb) ==
    IF gs = <<>> THEN total_size_mb
    ELSE LET group == Head(gs)
         IN  IF group.NZBID # ignore_group_id /\ nzbget_group_is_active(group)
             THEN TotalActiveFrom(Tail(gs), ignore_group_id,
                                  total_size_mb + group.FileSizeMB)
             ELSE TotalActiveFrom(Tail(gs), ignore_group_id, total_size_mb)

nzbget_groups_total_active_size_mb(gs, ignore_group_id) ==
    TotalActiveFrom(gs, ignore_group_id, 0)

\* lines 120-125: the largest priority below current_priority and above the floor
RECURSIVE NextPriorityFrom(_, _, _)
NextPriorityFrom(gs, cur, next_priority) ==
    IF gs = <<>> THEN next_priority
    ELSE LET group_priority == Head(gs).MaxPriority
         IN  IF group_priority > next_priority /\ group_priority < cur
             THEN NextPriorityFrom(Tail(gs), cur, group_priority)
             ELSE NextPriorityFrom(Tail(gs), cur, next_priority)

NextPriority(gs, cur) == NextPriorityFrom(gs, cur, PRIORITY_FLOOR)

\* lines 132-135: the groups yielded for one priority, in snapshot order
RECURSIVE GroupsAtPriority(_, _)
GroupsAtPriority(gs, prio) ==
    IF gs = <<>> THEN <<>>
    ELSE IF Head(gs).MaxPriority = prio
         THEN <<Head(gs)>> \o GroupsAtPriority(Tail(gs), prio)
         ELSE GroupsAtPriority(Tail(gs), prio)

\* Fits without the size test of line 178
Fits_AnySize(group, remaining) == group.Status = "PAUSED"

\* Fits without the status test of line 178
Fits_AnyStatus(group, remaining) == group.RemainingSizeMB <= remaining

\* lines 178-180: the body of the scheduler's for loop
Fits(group, remaining) ==
    group.Status = "PAUSED" /\ group.RemainingSizeMB <= remaining

\* lines 173-180 for the groups yielded in one pass of the generator
RECURSIVE Consume(_, _, _)
Consume(ys, to_resume, remaining) ==
    IF ys = <<>> THEN [groups_to_resume |-> to_resume, remaining_size_mb |-> remaining]
    ELSE LET group == Head(ys)
         IN  IF Fits(group, remaining)
             THEN Consume(Tail(ys), Append(to_resume, group.NZBID),
                          remaining - group.RemainingSizeMB)
             ELSE Consume(Tail(ys), to_resume, remaining)

Range(s) == {s[i] : i \in 1..Len(s)}

\* the engine's editqueue('GroupPause' / 'GroupResume', '', ids)
SetStatus(q, ids, status) ==
    [i \in 1..Len(q) |->
        IF q[i].NZBID \in Range(ids) THEN [q[i] EXCEPT !.Status = status] ELSE q[i]]

Call(op, ids) == [op |-> op, ids |-> ids]

\* the engine's queue after it has served the calls, in order
RECURSIVE EngineApply(_, _)
EngineApply(q, calls) ==
    IF calls = <<>> THEN q
    ELSE LET call == Head(calls)
             after == CASE call.op = "GroupResume" -> SetStatus(q, call.ids, "QUEUED")
                        [] call.op = "GroupPause" -> SetStatus(q, call.ids, "PAUSED")
                        [] OTHER -> q
         IN  EngineApply(after, Tail(calls))

\* Dispatch with the tests of lines 208 and 210 in the other order
Dispatch_EventFirst(env) ==
    IF env.event # None THEN "queue"
    ELSE IF env.taskid THEN "scheduler"
    ELSE "unknown"

\* main() lines 208-214: which script the process runs
Dispatch(env) ==
    IF env.taskid THEN "scheduler"
    ELSE IF env.event # None THEN "queue"
    ELSE "unknown"

-----------------------------------------------------------------------------
(* Initial states.                                                         *)

InitProcesses ==
    /\ s_pc = "none"
    /\ s_env = NoEnv
    /\ storage_size_mb = 0
    /\ sleep_period_secs = 0
    /\ groups = <<>>
    /\ groups_total_size_mb = 0
    /\ groups_to_resume = <<>>
    /\ remaining_size_mb = 0
    /\ current_priority = PRIORITY_START
    /\ yielded_groups = 0
    /\ emitted = <<>>
    /\ s_calls = <<>>
    /\ s_exit = NoExit
    /\ h_pc = "none"
    /\ h_env = NoEnv
    /\ h_calls = <<>>
    /\ h_exit = NoExit
    /\ u_exit = NoExit

\* the engine starts with an empty queue
Init ==
    /\ queue = <<>>
    /\ InitProcesses

\* the engine holds any queue of at most MaxLen groups
CycleInit ==
    /\ \E n \in 0..MaxLen : \E f \in [1..n -> GroupAttrs] : queue = QueueOf(n, f)
    /\ InitProcesses

-----------------------------------------------------------------------------
(* The scheduler script.                                                   *)

\* main() with NZBSP_TASKID set, then main_schedulerscript lines 147-160
StartScheduler(env) ==
    /\ s_pc = "none"
    /\ Dispatch(env) = "scheduler"
    /\ s_env' = env
    /\ LET storage == EnvInt(env.storage) * MB_PER_GB
           period == EnvInt(env.interval)
       IN  /\ storage_size_mb' = storage
           /\ sleep_period_secs' = period
           /\ IF storage = 0 \/ period = 0
              THEN s_pc' = "exited" /\ s_exit' = PP_ERROR
              ELSE s_pc' = "fetch" /\ s_exit' = s_exit
    /\ UNCHANGED <<queue, groups, groups_total_size_mb, groups_to_resume,
                   remaining_size_mb, current_priority, yielded_groups, emitted,
                   s_calls, hookVars, u_exit>>

\* Fetch with groups_to_resume created before the loop instead of line 170
Fetch_KeepsSelection ==
    /\ s_pc = "fetch"
    /\ groups' = queue
    /\ s_calls' = <<Call("listgroups", <<>>)>>
    /\ s_pc' = "check"
    /\ groups_total_size_mb' = 0
    /\ remaining_size_mb' = 0
    /\ current_priority' = PRIORITY_START
    /\ yielded_groups' = 0
    /\ emitted' = <<>>
    /\ UNCHANGED <<queue, s_env, storage_size_mb, sleep_period_secs, s_exit,
                   groups_to_resume, hookVars, u_exit>>

\* line 163: groups = nzbget.listgroups()
Fetch ==
    /\ s_pc = "fetch"
    /\ groups' = queue
    /\ s_calls' = <<Call("listgroups", <<>>)>>
    /\ s_pc' = "check"
    /\ groups_total_size_mb' = 0
    /\ groups_to_resume' = <<>>
    /\ remaining_size_mb' = 0
    /\ current_priority' = PRIORITY_START
    /\ yielded_groups' = 0
    /\ emitted' = <<>>
    /\ UNCHANGED <<queue, s_env, storage_size_mb, sleep_period_secs, s_exit,
                   hookVars, u_exit>>

\* lines 166-171: the free space check
CheckSpace ==
    /\ s_pc = "check"
    /\ LET total == nzbget_groups_total_active_size_mb(groups, NO_GROUP_ID)
       IN  /\ groups_total_size_mb' = total
           /\ IF total < storage_size_mb
              THEN /\ remaining_size_mb' = storage_size_mb - total
                   /\ s_pc' = "iterate"
              ELSE /\ remaining_size_mb' = remaining_size_mb
                   /\ s_pc' = "sleep"
    /\ UNCHANGED <<queue, s_env, storage_size_mb, sleep_period_secs, groups,
                   groups_to_resume, current_priority, yielded_groups, emitted,
                   s_calls, s_exit, hookVars, u_exit>>

\* one iteration of the generator's while loop (lines 118-135) and the body
\* of the scheduler's for loop (lines 173-180) for each group it yields
IterPass ==
    /\ s_pc = "iterate"
    /\ Len(groups) # yielded_groups
    /\ yielded_groups < MaxYielded
    /\ LET next_priority == NextPriority(groups, current_priority)
           yielded == GroupsAtPriority(groups, next_priority)
           after == Consume(yielded, groups_to_resume, remaining_size_mb)
       IN  /\ current_priority' = next_priority
           /\ yielded_groups' = yielded_groups + Len(yielded)
           /\ emitted' = emitted \o yielded
           /\ groups_to_resume' = after.groups_to_resume
           /\ remaining_size_mb' = after.remaining_size_mb
    /\ UNCHANGED <<queue, s_pc, s_env, storage_size_mb, sleep_period_secs, groups,
                   groups_total_size_mb, s_calls, s_exit, hookVars, u_exit>>

\* ResumeCalls without the test of line 182
ResumeCalls_Always(to_resume) == <<Call("GroupResume", to_resume)>>

\* ResumeCalls naming the groups that are PAUSED in the engine's queue at
\* the time of the call instead of the ids selected from the snapshot
ResumeCalls_PausedNow(to_resume) ==
    LET paused == SelectSeq(queue, LAMBDA g : g.Status = "PAUSED")
    IN  IF to_resume # <<>>
        THEN <<Call("GroupResume", [i \in 1..Len(paused) |-> paused[i].NZBID])>>
        ELSE <<>>

\* ResumeCalls naming only the first of the selected ids
ResumeCalls_FirstOnly(to_resume) ==
    IF to_resume # <<>> THEN <<Call("GroupResume", <<to_resume[1]>>)>> ELSE <<>>

\* lines 182-186: the remote calls that end a cycle
ResumeCalls(to_resume) ==
    IF to_resume # <<>> THEN <<Call("GroupResume", to_resume)>> ELSE <<>>

\* the generator is exhausted (line 118); lines 182-186
Resume ==
    /\ s_pc = "iterate"
    /\ Len(groups) = yielded_groups
    /\ s_calls' = s_calls \o ResumeCalls(groups_to_resume)
    /\ queue' = EngineApply(queue, ResumeCalls(groups_to_resume))
    /\ s_pc' = "sleep"
    /\ UNCHANGED <<s_env, schedLocals, s_exit, hookVars, u_exit>>

\* line 188: time.sleep(sleep_period_secs); a negative length raises ValueError
Sleep ==
    /\ s_pc = "sleep"
    /\ IF sleep_period_secs < 0
       THEN s_pc' = "crashed" /\ s_exit' = UNHANDLED_EXCEPTION
       ELSE s_pc' = "fetch" /\ s_exit' = s_exit
    /\ UNCHANGED <<queue, s_env, schedLocals, s_calls, hookVars, u_exit>>

\* a remote call of the scheduler raises (lines 163, 186): nothing catches it
SchedulerCallFails ==
    /\ \/ /\ s_pc = "fetch"
          /\ s_calls' = <<Call("listgroups", <<>>)>>
          /\ UNCHANGED queue
       \/ /\ s_pc = "iterate"
          /\ Len(groups) = yielded_groups
          /\ ResumeCalls(groups_to_resume) # <<>>
          /\ s_calls' = s_calls \o ResumeCalls(groups_to_resume)
          /\ \/ UNCHANGED queue
             \/ queue' = EngineApply(queue, ResumeCalls(groups_to_resume))
    /\ s_pc' = "crashed"
    /\ s_exit' = UNHANDLED_EXCEPTION
    /\ UNCHANGED <<s_env, schedLocals, hookVars, u_exit>>

\* the environment NZBGet gives a scheduler script
SchedulerEnvs ==
    [taskid : {TRUE}, event : {None}, nzbid : {None},
     storage : StorageValues, interval : IntervalValues]

\* a scheduler script whose options are set
CycleEnvs == {env \in SchedulerEnvs : env.storage = "1" /\ env.interval = "15"}

CycleNext ==
    \/ \E env \in CycleEnvs : StartScheduler(env)
    \/ Fetch
    \/ CheckSpace
    \/ IterPass
    \/ Resume
    \/ Sleep
    \/ SchedulerCallFails

CycleSpec == CycleInit /\ [][CycleNext]_vars

-----------------------------------------------------------------------------
(* The engine and the queue script.                                        *)

\* a new NZB is added to the engine's queue; it is not paused
Submit(pair, prio) ==
    /\ Len(queue) < MaxSubmit
    /\ queue' = Append(queue, Group(Len(queue) + 1, pair, prio, "QUEUED"))
    /\ UNCHANGED <<schedVars, schedLocals, hookVars, u_exit>>

\* StartQueue without the event test of line 194
StartQueue_AnyEvent(env) ==
    /\ h_pc \in {"none", "exited", "crashed"}
    /\ Dispatch(env) = "queue"
    /\ h_env' = env
    /\ h_calls' = <<>>
    /\ h_pc' = "pause"
    /\ h_exit' = NoExit
    /\ UNCHANGED <<queue, schedVars, schedLocals, u_exit>>

\* main() with NZBNA_EVENT set and no NZBSP_TASKID, then main_queuescript
\* lines 194-199
StartQueue(env) ==
    /\ h_pc \in {"none", "exited", "crashed"}
    /\ Dispatch(env) = "queue"
    /\ h_env' = env
    /\ h_calls' = <<>>
    /\ IF env.event # "NZB_ADDED"
       THEN h_pc' = "exited" /\ h_exit' = QUEUE_IGNORED
       ELSE h_pc' = "pause" /\ h_exit' = NoExit
    /\ UNCHANGED <<queue, schedVars, schedLocals, u_exit>>

\* QueuePause with a pause command that names every group of the queue
QueuePause_AllGroups ==
    /\ h_pc = "pause"
    /\ LET ids == [i \in 1..Len(queue) |-> queue[i].NZBID]
       IN  /\ h_calls' = <<Call("GroupPause", ids)>>
           /\ queue' = EngineApply(queue, <<Call("GroupPause", ids)>>)
    /\ h_pc' = "exited"
    /\ h_exit' = PP_SUCCESS
    /\ UNCHANGED <<h_env, schedVars, schedLocals, u_exit>>

\* lines 198-204: pause the NZB and return PP_SUCCESS
QueuePause ==
    /\ h_pc = "pause"
    /\ LET nzbna_nzbid == ParseInt(h_env.nzbid)
       IN  /\ h_calls' = <<Call("GroupPause", <<nzbna_nzbid>>)>>
           /\ queue' = EngineApply(queue, <<Call("GroupPause", <<nzbna_nzbid>>)>>)
    /\ h_pc' = "exited"
    /\ h_exit' = PP_SUCCESS
    /\ UNCHANGED <<h_env, schedVars, schedLocals, u_exit>>

\* the remote call of the queue script raises (line 202)
QueueCallFails ==
    /\ h_pc = "pause"
    /\ LET nzbna_nzbid == ParseInt(h_env.nzbid)
       IN  /\ h_calls' = <<Call("GroupPause", <<nzbna_nzbid>>)>>
           /\ \/ UNCHANGED queue
              \/ queue' = EngineApply(queue, <<Call("GroupPause", <<nzbna_nzbid>>)>>)
    /\ h_pc' = "crashed"
    /\ h_exit' = UNHANDLED_EXCEPTION
    /\ UNCHANGED <<h_env, schedVars, schedLocals, u_exit>>

\* main() lines 213-214: neither NZBSP_TASKID nor NZBNA_EVENT
StartUnknown(env) ==
    /\ Dispatch(env) = "unknown"
    /\ u_exit' = PP_ERROR
    /\ UNCHANGED <<queue, schedVars, schedLocals, hookVars>>

\* environments with NZBSP_TASKID: NZBNA_EVENT may be there as well
TaskEnvs ==
    [taskid : {TRUE}, event : {None, "NZB_ADDED"}, nzbid : {None},
     storage : StorageValues, interval : IntervalValues]

\* environments of a queue event for a group of the queue: NZBSP_TASKID
\* may be there as well
EventEnvs ==
    [taskid : BOOLEAN, event : EventValues \ {None},
     nzbid : {IdString(queue[i].NZBID) : i \in 1..Len(queue)},
     storage : {"1"}, interval : {"15"}]

\* environments with neither signal
OtherEnvs ==
    [taskid : {FALSE}, event : {None}, nzbid : {None},
     storage : {"1"}, interval : {"15"}]

Next ==
    \/ \E env \in TaskEnvs : StartScheduler(env)
    \/ Fetch
    \/ CheckSpace
    \/ IterPass
    \/ Resume
    \/ Sleep
    \/ SchedulerCallFails
    \/ \E pair \in SubmitPairs, prio \in SubmitPriorities : Submit(pair, prio)
    \/ \E env \in EventEnvs : StartQueue(env)
    \/ QueuePause
    \/ QueueCallFails
    \/ \E env \in OtherEnvs : StartUnknown(env)

Spec == Init /\ [][Next]_vars

-----------------------------------------------------------------------------
(* Definitions the properties are stated with.                             *)

RECURSIVE SumOver(_, _)
SumOver(f, S) ==
    IF S = {} THEN 0
    ELSE LET i == CHOOSE j \in S : TRUE IN f[i] + SumOver(f, S \ {i})

\* total FileSizeMB of the groups of q that are not PAUSED
ActiveSizeMB(q) ==
    SumOver([i \in 1..Len(q) |-> q[i].FileSizeMB],
            {i \in 1..Len(q) : q[i].Status # "PAUSED"})

\* total RemainingSizeMB of the groups of q whose id is in ids
RemainingOfIds(q, ids) ==
    SumOver([i \in 1..Len(q) |-> q[i].RemainingSizeMB],
            {i \in 1..Len(q) : q[i].NZBID \in ids})

\* total RemainingSizeMB of a list of ids of q, an id counted each time it occurs
RemainingOfList(q, idlist) ==
    SumOver([k \in 1..Len(idlist) |-> RemainingOfIds(q, {idlist[k]})],
            1..Len(idlist))

\* the group of q with the given id
GroupOfId(q, id) == q[CHOOSE i \in 1..Len(q) : q[i].NZBID = id]

\* stable sort by MaxPriority, descending
RECURSIVE InsertDesc(_, _)
InsertDesc(g, sorted) ==
    IF sorted = <<>> THEN <<g>>
    ELSE IF Head(sorted).MaxPriority >= g.MaxPriority
         THEN <<Head(sorted)>> \o InsertDesc(g, Tail(sorted))
         ELSE <<g>> \o sorted

RECURSIVE SortInto(_, _)
SortInto(gs, sorted) ==
    IF gs = <<>> THEN sorted ELSE SortInto(Tail(gs), InsertDesc(Head(gs), sorted))

StableSortDesc(gs) == SortInto(gs, <<>>)

\* the budget of the cycle: capacity minus the active size of its snapshot
Budget == storage_size_mb - ActiveSizeMB(groups)

\* the scheduler has passed the free space check of the current cycle
Selecting == s_pc \in {"iterate", "sleep"} /\ s_calls # <<>>

\* the generator of the current cycle is exhausted
TraversalDone == s_pc = "iterate" /\ Len(groups) = yielded_groups

\* the cycle is over and the scheduler sleeps
CycleDone == s_pc = "sleep" /\ s_calls # <<>>

ListCall == Call("listgroups", <<>>)

\* every priority of gs is one the generator's sentinels leave room for
PrioritiesInRange(gs) ==
    \A i \in 1..Len(gs) :
        gs[i].MaxPriority >= PRIORITY_FLOOR /\ gs[i].MaxPriority < PRIORITY_START

-----------------------------------------------------------------------------
(* C1: in every reachable state of the whole system, once the scheduler    *)
(* runs with a positive storage size, the total FileSizeMB of the groups   *)
(* that are not PAUSED does not exceed the storage size.                   *)
C1_ActiveSizeWithinCap ==
    (s_pc \in {"fetch", "check", "iterate", "sleep"} /\ storage_size_mb > 0)
        => ActiveSizeMB(queue) <= storage_size_mb

(* C2: if the ids a cycle has selected are marked active in the cycle's    *)
(* snapshot, the active size of the result does not exceed a positive      *)
(* storage size: what a cycle resumes never takes the active size of its   *)
(* snapshot over the storage size.  Stated for the snapshots whose         *)
(* priorities lie within the generator's sentinels.                        *)
C2_ResumedSnapshotWithinCap ==
    (/\ Selecting
     /\ storage_size_mb > 0
     /\ groups_to_resume # <<>>
     /\ PrioritiesInRange(groups))
        => ActiveSizeMB(SetStatus(groups, groups_to_resume, "QUEUED"))
               <= storage_size_mb

(* C3: the ids selected in a cycle have a total RemainingSizeMB that does  *)
(* not exceed the budget of the cycle, counted per id and counted per      *)
(* entry of the list; nothing is selected when the budget is <= 0.         *)
C3_SelectionWithinBudget ==
    Selecting =>
        /\ Budget <= 0 => groups_to_resume = <<>>
        /\ groups_to_resume # <<>> =>
              /\ RemainingOfIds(groups, Range(groups_to_resume)) <= Budget
              /\ RemainingOfList(groups, groups_to_resume) <= Budget

\* two groups are selected and use up the budget exactly
C3_Witness ==
    /\ CycleDone
    /\ Len(groups_to_resume) = 2
    /\ Cardinality(Range(groups_to_resume)) = 2
    /\ RemainingOfIds(groups, Range(groups_to_resume)) = Budget

(* C4: when the priority traversal is exhausted, what it has yielded is    *)
(* the stable sort of the snapshot by priority, descending: every group    *)
(* once, equal priorities in snapshot order.                               *)
C4_TraversalIsStableSort ==
    TraversalDone => emitted = StableSortDesc(groups)

(* C5: the priority traversal terminates whatever the priorities are.  The *)
(* loop is deterministic and ends only when the count of yielded groups    *)
(* equals the length of the snapshot, so it terminates exactly when every  *)
(* pass before the end yields a group and the count never passes the       *)
(* length.                                                                 *)
C5_TraversalTerminates ==
    (s_pc = "iterate" /\ Len(groups) # yielded_groups) =>
        LET yielded == GroupsAtPriority(groups, NextPriority(groups, current_priority))
        IN  /\ yielded # <<>>
            /\ yielded_groups + Len(yielded) <= Len(groups)

(* C6: a scheduler process whose storage size or refresh interval is       *)
(* absent, zero or negative returns PP_ERROR without any remote call and   *)
(* without entering the loop.                                              *)
C6_InvalidConfigRefused ==
    (s_pc # "none" /\ (EnvInt(s_env.storage) <= 0 \/ EnvInt(s_env.interval) <= 0))
        => /\ s_pc = "exited"
           /\ s_exit = PP_ERROR
           /\ s_calls = <<>>

\* the outcomes of the processes that have ended, each with its exit status
ConfigErrorExit == s_pc = "exited"
UnknownContextExit == u_exit # NoExit
QueueSuccessExit == h_pc = "exited" /\ h_calls # <<>>

Outcomes ==
    (IF ConfigErrorExit THEN {<<"config_error", s_exit>>} ELSE {})
    \cup (IF UnknownContextExit THEN {<<"unknown_context", u_exit>>} ELSE {})
    \cup (IF QueueSuccessExit THEN {<<"success", h_exit>>} ELSE {})

(* C7 as claimed: success, configuration error and unknown invocation      *)
(* context have three pairwise distinct exit statuses.                     *)
C7_ThreeDistinctStatuses ==
    \A a \in Outcomes : \A b \in Outcomes : a[1] # b[1] => a[2] # b[2]

(* C7 as amended: the exit status of success differs from the exit status  *)
(* of a configuration error and of an unknown invocation context, and the  *)
(* last two have the same exit status, PP_ERROR.                           *)
C7_SuccessDistinctFromError ==
    \A a \in Outcomes : \A b \in Outcomes :
        /\ (a[1] = "success" /\ b[1] # "success") => a[2] # b[2]
        /\ (a[1] # "success" /\ b[1] # "success") => (a[2] = b[2] /\ a[2] = PP_ERROR)

\* all three outcomes have happened
C7_Witness == ConfigErrorExit /\ UnknownContextExit /\ QueueSuccessExit

(* C8: once the loop has started with a valid configuration it never       *)
(* stops: the scheduler is fetching, selecting or sleeping, and a pass     *)
(* that is selecting goes on to its end.                                   *)
C8_LoopNeverStops ==
    (s_pc # "none" /\ storage_size_mb > 0 /\ sleep_period_secs > 0) =>
        /\ s_pc \in {"fetch", "check", "iterate", "sleep"}
        /\ (s_pc = "iterate" /\ Len(groups) # yielded_groups) =>
              /\ GroupsAtPriority(groups, NextPriority(groups, current_priority)) # <<>>
              /\ yielded_groups < Len(groups)

(* C9: a cycle fetches exactly one snapshot, and ends with exactly one     *)
(* GroupResume command naming the selected ids if any id is selected, and  *)
(* with no further command otherwise.                                      *)
C9_OneFetchOneBatchedResume ==
    /\ s_pc \in {"check", "iterate"} => s_calls = <<ListCall>>
    /\ s_pc \in {"sleep", "crashed"} =>
          \/ s_calls = <<ListCall>> /\ (s_pc = "sleep" => groups_to_resume = <<>>)
          \/ /\ s_calls = <<ListCall, Call("GroupResume", groups_to_resume)>>
             /\ groups_to_resume # <<>>

\* a cycle has ended with one command that resumes two groups
C9_Witness ==
    /\ CycleDone
    /\ Len(s_calls) = 2
    /\ Cardinality(Range(s_calls[2].ids)) = 2

(* C10: the scheduler issues no GroupPause, every id it resumes is PAUSED  *)
(* in the snapshot of the cycle, and the groups that are active in the     *)
(* snapshot are in the queue as they were when the cycle ends.             *)
C10_NeverDemotes ==
    /\ \A k \in 1..Len(s_calls) :
          /\ s_calls[k].op # "GroupPause"
          /\ \A id \in Range(s_calls[k].ids) :
                /\ \E i \in 1..Len(groups) : groups[i].NZBID = id
                /\ GroupOfId(groups, id).Status = "PAUSED"
    /\ CycleDone =>
          \A i \in 1..Len(groups) :
              groups[i].Status # "PAUSED" => queue[i] = groups[i]

\* a group is resumed while a paused group of higher priority does not fit
\* and an active group stays as it is
C10_Witness ==
    /\ CycleDone
    /\ Len(s_calls) = 2
    /\ \E i \in 1..Len(groups) : groups[i].Status # "PAUSED"
    /\ \E i \in 1..Len(groups) : \E id \in Range(groups_to_resume) :
          /\ groups[i].Status = "PAUSED"
          /\ groups[i].NZBID \notin Range(groups_to_resume)
          /\ groups[i].MaxPriority > GroupOfId(groups, id).MaxPriority

\* a queue-script process has ended on an event other than NZB_ADDED
IgnoredEventExit == h_pc = "exited" /\ h_env.event # "NZB_ADDED"

(* C11 as claimed: a queue-script process run for an event other than      *)
(* NZB_ADDED makes no remote call and exits with the status the queue      *)
(* script returns after it has paused an added group, PP_SUCCESS.          *)
C11_IgnoredEventExitsWithSuccess ==
    IgnoredEventExit => (h_calls = <<>> /\ h_exit = PP_SUCCESS)

(* C11 as amended: a queue-script process run for an event other than      *)
(* NZB_ADDED makes no remote call and exits with status 0, which is        *)
(* neither PP_SUCCESS nor PP_ERROR.                                        *)
C11_IgnoredEventExitsWithZero ==
    IgnoredEventExit =>
        /\ h_calls = <<>>
        /\ h_exit = 0
        /\ h_exit \notin {PP_SUCCESS, PP_ERROR}

\* the queue script has ignored an event for a group that is not paused
C11_Witness ==
    /\ IgnoredEventExit
    /\ h_env.event = "NZB_DOWNLOADED"
    /\ h_exit = QUEUE_IGNORED
    /\ \E i \in 1..Len(queue) :
          IdString(queue[i].NZBID) = h_env.nzbid /\ queue[i].Status # "PAUSED"

\* a queue-script process has ended after an NZB_ADDED event
AddedEventExit == h_pc = "exited" /\ h_env.event = "NZB_ADDED"

\* the step in which a queue-script process pauses its group and ends
HookStep == h_pc = "pause" /\ h_pc' = "exited"

(* C12: a queue-script process run for NZB_ADDED makes exactly one remote  *)
(* call, a GroupPause naming exactly the submitted id, and returns         *)
(* PP_SUCCESS, whatever the group and the queue are; its step changes      *)
(* nothing but the status of that group, which is PAUSED afterwards, makes *)
(* no call of the scheduler's, and leaves the queue as it is when the      *)
(* group is already PAUSED (a second run for the same id changes nothing). *)
C12_HookPausesExactlySubmitted ==
    /\ [](AddedEventExit =>
            /\ h_calls = <<Call("GroupPause", <<ParseInt(h_env.nzbid)>>)>>
            /\ h_exit = PP_SUCCESS)
    /\ [][HookStep =>
            LET id == ParseInt(h_env.nzbid)
            IN  /\ Len(queue') = Len(queue)
                /\ \A i \in 1..Len(queue) :
                      queue'[i] = IF queue[i].NZBID = id
                                  THEN [queue[i] EXCEPT !.Status = "PAUSED"]
                                  ELSE queue[i]
                /\ GroupOfId(queue, id).Status = "PAUSED" => queue' = queue
                /\ s_calls' = s_calls]_vars

\* the queue script has paused a group of 1024 MB while the scheduler runs
\* and another group is active
C12_Witness ==
    /\ AddedEventExit
    /\ h_exit = PP_SUCCESS
    /\ s_pc \in {"check", "iterate", "sleep"}
    /\ \E i \in 1..Len(queue) : \E j \in 1..Len(queue) :
          /\ IdString(queue[i].NZBID) = h_env.nzbid
          /\ queue[i].Status = "PAUSED"
          /\ queue[i].FileSizeMB = 1024
          /\ queue[j].Status # "PAUSED"

\* the FileSizeMB that the group of gs with the given id adds to the active
\* size: 0 when there is no such group or when it is PAUSED
ActiveContribution(gs, id) ==
    IF \E i \in 1..Len(gs) : gs[i].NZBID = id /\ gs[i].Status # "PAUSED"
    THEN GroupOfId(gs, id).FileSizeMB
    ELSE 0

(* C13: for the snapshot of every cycle, the total the scheduler computes  *)
(* is the sum of FileSizeMB over the groups that are not PAUSED; and with  *)
(* an id to ignore, the function returns that sum minus the FileSizeMB of  *)
(* the group with that id if it is active, and that sum if the group is    *)
(* PAUSED or no group has the id.                                          *)
C13_ActiveSizeIsSum ==
    /\ Selecting => groups_total_size_mb = ActiveSizeMB(groups)
    /\ nzbget_groups_total_active_size_mb(groups, NO_GROUP_ID) = ActiveSizeMB(groups)
    /\ \A id \in 1..(Len(groups) + 1) :
          nzbget_groups_total_active_size_mb(groups, id)
              = ActiveSizeMB(groups) - ActiveContribution(groups, id)

\* the total was computed for a snapshot with two active groups and a
\* paused one, and ignoring an active group lowers it
C13_Witness ==
    /\ Selecting
    /\ groups_total_size_mb = 1536
    /\ \E i \in 1..Len(groups) : groups[i].Status = "PAUSED"
    /\ \E i \in 1..Len(groups) :
          /\ groups[i].Status # "PAUSED"
          /\ nzbget_groups_total_active_size_mb(groups, groups[i].NZBID)
                 = groups_total_size_mb - groups[i].FileSizeMB

\* the selection of lines 170-180 run from scratch: the generator started
\* anew on gs and the for loop started with an empty list
RECURSIVE SelectFrom(_, _, _, _, _)
SelectFrom(gs, cur, yielded, to_resume, remaining) ==
    IF Len(gs) = yielded THEN to_resume
    ELSE LET next_priority == NextPriority(gs, cur)
             ys == GroupsAtPriority(gs, next_priority)
             after == Consume(ys, to_resume, remaining)
         IN  SelectFrom(gs, next_priority, yielded + Len(ys),
                        after.groups_to_resume, after.remaining_size_mb)

\* the ids to resume as a function of the snapshot and the capacity alone
SelectionOf(gs, capacity) ==
    IF ActiveSizeMB(gs) < capacity
    THEN SelectFrom(gs, PRIORITY_START, 0, <<>>, capacity - ActiveSizeMB(gs))
    ELSE <<>>

\* the step that fetches a snapshot equal to the snapshot of the cycle before
RefetchSameSnapshot ==
    /\ s_pc = "fetch" /\ s_pc' = "check"
    /\ s_calls # <<>>
    /\ groups' = groups

(* C14: the list of ids a cycle ends with is a function of the cycle's     *)
(* snapshot and the storage size alone: it is the list the selection gives *)
(* when run from scratch on them, in the first cycle and in every later    *)
(* one; and when a cycle fetches the snapshot the cycle before had, the    *)
(* list it will end with is the list the cycle before ended with.          *)
C14_SelectionIsFunctionOfSnapshot ==
    /\ [](CycleDone => groups_to_resume = SelectionOf(groups, storage_size_mb))
    /\ [][RefetchSameSnapshot =>
            SelectionOf(groups', storage_size_mb') = groups_to_resume]_vars

\* a cycle has resumed a group, the queue script has paused it again, and
\* the next cycle is about to fetch the same snapshot
C14_Witness ==
    /\ s_pc = "fetch"
    /\ Len(s_calls) = 2
    /\ groups_to_resume # <<>>
    /\ queue = groups

\* the single-pass greedy over a list of groups: a group is taken when it
\* is PAUSED and its RemainingSizeMB is at most the budget less the
\* RemainingSizeMB of the groups taken before it
RECURSIVE GreedyIds(_, _)
GreedyIds(items, budget) ==
    IF items = <<>> THEN <<>>
    ELSE LET item == Head(items)
         IN  IF item.Status = "PAUSED" /\ item.RemainingSizeMB <= budget
             THEN <<item.NZBID>> \o GreedyIds(Tail(items), budget - item.RemainingSizeMB)
             ELSE GreedyIds(Tail(items), budget)

(* C15: the list of ids a cycle ends with is the single-pass greedy over   *)
(* the snapshot sorted by priority, descending, equal priorities in        *)
(* snapshot order: a group is selected if and only if it is PAUSED and its *)
(* RemainingSizeMB is at most the budget less the RemainingSizeMB of the   *)
(* groups selected before it; nothing is selected for a budget <= 0.       *)
C15_SelectionIsGreedyOverSort ==
    CycleDone =>
        groups_to_resume =
            IF Budget > 0 THEN GreedyIds(StableSortDesc(groups), Budget) ELSE <<>>

\* the step in which the scheduler's resume command reaches the engine
ResumeStep ==
    /\ s_pc = "iterate"
    /\ s_pc' \in {"sleep", "crashed"}
    /\ s_calls' = s_calls \o <<Call("GroupResume", groups_to_resume)>>

(* C16: in every interleaving of submissions, queue-script runs and        *)
(* scheduler cycles, a group that is PAUSED becomes active only in the     *)
(* step of the scheduler's GroupResume command and only if the command     *)
(* names it; and every id a GroupResume command names is the id of a group *)
(* that is in the snapshot fetched at the start of the cycle and PAUSED    *)
(* there, so a group submitted after the snapshot is not resumed by it.    *)
C16_OnlySchedulerResumesFromSnapshot ==
    /\ [](\A k \in 1..Len(s_calls) :
             s_calls[k].op = "GroupResume" =>
                 \A id \in Range(s_calls[k].ids) :
                     /\ \E i \in 1..Len(groups) : groups[i].NZBID = id
                     /\ GroupOfId(groups, id).Status = "PAUSED")
    /\ [][\A i \in 1..Len(queue) :
             (queue[i].Status = "PAUSED" /\ queue'[i].Status # "PAUSED") =>
                 /\ ResumeStep
                 /\ queue[i].NZBID \in Range(groups_to_resume)
                 /\ \E j \in 1..Len(groups) :
                       groups[j].NZBID = queue[i].NZBID /\ groups[j].Status = "PAUSED"]_vars

\* a cycle has resumed the group of its snapshot while a group submitted
\* and paused after the snapshot, which fits the storage too, stays PAUSED
C16_Witness ==
    /\ CycleDone
    /\ Len(s_calls) = 2
    /\ s_calls[2].ids = <<1>>
    /\ Len(groups) = 1
    /\ Len(queue) = 2
    /\ queue[1].Status = "QUEUED" /\ queue[1].FileSizeMB = 512
    /\ queue[2].Status = "PAUSED" /\ queue[2].RemainingSizeMB = 512
    /\ h_pc = "exited" /\ h_env.nzbid = "2" /\ h_exit = PP_SUCCESS

\* the budget that is left when the selected groups are taken off it
LeftoverBudget == Budget - RemainingOfIds(groups, Range(groups_to_resume))

\* the positions, in a list of groups, of the PAUSED groups that fit a budget
FittingPositions(items, budget) ==
    {k \in 1..Len(items) :
        items[k].Status = "PAUSED" /\ items[k].RemainingSizeMB <= budget}

(* C17: when a cycle with a positive budget has made its selection, no     *)
(* PAUSED group of the snapshot that is not selected has a RemainingSizeMB *)
(* that fits the budget that is left; and the first PAUSED group, in       *)
(* descending priority order, that fits the budget is selected.            *)
C17_SelectionIsMaximal ==
    (CycleDone /\ Budget > 0) =>
        /\ \A i \in 1..Len(groups) :
              (groups[i].Status = "PAUSED" /\ groups[i].NZBID \notin Range(groups_to_resume))
                  => groups[i].RemainingSizeMB > LeftoverBudget
        /\ LET sorted == StableSortDesc(groups)
               fitting == FittingPositions(sorted, Budget)
           IN  fitting # {} =>
                   sorted[CHOOSE k \in fitting : \A m \in fitting : k <= m].NZBID
                       \in Range(groups_to_resume)

\* the generator started anew on gs comes to its end (line 118)
RECURSIVE TraversalEndsFrom(_, _, _)
TraversalEndsFrom(gs, cur, yielded) ==
    IF Len(gs) = yielded THEN TRUE
    ELSE IF yielded > Len(gs) THEN FALSE
    ELSE LET next_priority == NextPriority(gs, cur)
             ys == GroupsAtPriority(gs, next_priority)
         IN  IF ys = <<>> THEN FALSE
             ELSE TraversalEndsFrom(gs, next_priority, yielded + Len(ys))

\* the ids a cycle that starts on the queue q would name in a resume
\* command: none when the storage is full or the traversal never ends
WouldResume(q) ==
    IF ActiveSizeMB(q) < storage_size_mb /\ TraversalEndsFrom(q, PRIORITY_START, 0)
    THEN SelectionOf(q, storage_size_mb)
    ELSE <<>>

\* a cycle that starts on the engine's queue would resume nothing
Converged == s_pc # "none" /\ WouldResume(queue) = <<>>

(* C18: with no submissions and RemainingSizeMB <= FileSizeMB, the queue   *)
(* reaches a fixed point with the first resume command: every step that    *)
(* changes the queue is the scheduler's resume command and leaves a queue  *)
(* on which a cycle would resume nothing; and a cycle that has run on such *)
(* a queue has selected nothing and made no call but its listgroups, so    *)
(* the loop issues at most one resume command.                             *)
C18_ConvergesAfterOneResume ==
    /\ [][queue' # queue =>
            (/\ s_pc = "iterate"
             /\ Len(s_calls') = 2
             /\ Converged')]_vars
    /\ []((/\ s_pc \in {"sleep", "crashed"}
           /\ s_calls # <<>>
           /\ groups = queue
           /\ Converged) =>
            /\ s_calls = <<ListCall>>
            /\ s_pc = "sleep" => groups_to_resume = <<>>)

\* the first resume command has made two groups active, a PAUSED group is
\* left in the queue, and a cycle on this queue would resume nothing
C18_Witness ==
    /\ CycleDone
    /\ Len(s_calls) = 2
    /\ Cardinality(Range(groups_to_resume)) = 2
    /\ queue # groups
    /\ \E i \in 1..Len(queue) : queue[i].Status = "PAUSED"
    /\ Converged

(* C19: a process runs the scheduler loop only if NZBSP_TASKID is set, and *)
(* then the queue script does not run, also when NZBNA_EVENT is set too;   *)
(* the queue script runs only in a process with NZBNA_EVENT and without    *)
(* NZBSP_TASKID, and ends after its one pass; a process with neither       *)
(* returns PP_ERROR and makes no remote call.                              *)
C19_ModeDispatch ==
    /\ [](s_pc # "none" => s_env.taskid)
    /\ [](h_pc # "none" => (~h_env.taskid /\ h_env.event # None))
    /\ [](u_exit # NoExit => u_exit = PP_ERROR)
    /\ [][(s_pc = "none" /\ s_pc' # "none") =>
            (UNCHANGED hookVars /\ queue' = queue /\ u_exit' = u_exit)]_vars
    /\ [][h_env' # h_env =>
            (~h_env'.taskid /\ UNCHANGED schedVars /\ h_pc' \in {"pause", "exited"})]_vars
    /\ [][(h_pc = "pause" /\ h_pc' # "pause") => h_pc' \in {"exited", "crashed"}]_vars
    /\ [][u_exit' # u_exit =>
            (/\ u_exit' = PP_ERROR
             /\ UNCHANGED <<queue, schedVars, hookVars>>)]_vars

\* a process with both signals runs the scheduler loop, a process with
\* the event alone has paused a group, and a process with neither has ended
C19_Witness ==
    /\ s_pc = "sleep"
    /\ s_env.taskid /\ s_env.event = "NZB_ADDED"
    /\ h_pc = "exited" /\ h_calls # <<>> /\ h_exit = PP_SUCCESS
    /\ u_exit = PP_ERROR

====
